---------------------------- MODULE Spec2Model ----------------------------
(***************************************************************************)
(* Model of the FAIR risk calculator (src/unnamed/part_000): the form      *)
(* state of the FairRiskCalculator component, its input handler with       *)
(* validation, and the memoised risk computation `results`.                *)
(*                                                                         *)
(* Numbers.  JavaScript numbers are IEEE doubles.  The model keeps         *)
(*   - the numbers typed into the form as exact integers, written in two   *)
(*     base-10^6 limbs (revenue reaches 10^11), or as NaN / +-Infinity;    *)
(*   - dimensionless quantities (weights, scores, factors, logarithms) in  *)
(*     fixed point with 7 decimals (FS);                                   *)
(*   - money in fixed point with 2 decimals (CS).                          *)
(* Math.round keeps the scale of its argument: a rounded value is a        *)
(* multiple of the scale.                                                  *)
(* Every decimal literal of the program (0.15, 0.65, 1.65, ...) is exact   *)
(* in this representation; a product is truncated to the representation's  *)
(* last digit where a double is rounded to its 53rd bit.                   *)
(* Where the last bit of a double decides a result, the scenario side of   *)
(* the computation is kept a second time in binary64 itself: significands  *)
(* of 53 bits, results rounded to the nearest, a tie to the even one, for  *)
(* the profiles whose logarithms are whole numbers.                        *)
(*                                                                         *)
(* The signup webhook (src/netlify/functions/identity-signup.js) is a      *)
(* second program of the repository, with its own specification.           *)
(***************************************************************************)
EXTENDS Integers, Sequences, FiniteSets, TLC

\* ------------------------------------------------------------------------
\* Number representation
\* ------------------------------------------------------------------------

\* limb radix of the integers typed into the form
Radix == 10^6

\* fixed-point scale of dimensionless quantities
FS == 10^7

\* fixed-point scale of money
CS == 10^2

\* a finite integer hi * Radix + lo, 0 <= lo < Radix
Num(hi, lo) == [k |-> "fin", hi |-> hi, lo |-> lo]

\* a finite integer small enough for one machine word
Whole(n) == Num(n \div Radix, n % Radix)

NumNaN == [k |-> "nan", hi |-> 0, lo |-> 0]

NumInf == [k |-> "inf", hi |-> 0, lo |-> 0]

NumNegInf == [k |-> "ninf", hi |-> 0, lo |-> 0]

\* a < b on JavaScript numbers: false whenever an operand is NaN
NumLt(a, b) ==
    IF a.k = "nan" \/ b.k = "nan" THEN FALSE
    ELSE IF a.k = "inf" \/ b.k = "ninf" THEN FALSE
    ELSE IF a.k = "ninf" \/ b.k = "inf" THEN TRUE
    ELSE a.hi < b.hi \/ (a.hi = b.hi /\ a.lo < b.lo)

\* Math.max(a, b) on the numbers of the form: NaN if an operand is NaN
NumMax(a, b) ==
    IF a.k = "nan" \/ b.k = "nan" THEN NumNaN
    ELSE IF NumLt(a, b) THEN b ELSE a

\* a value of the computation: finite fixed point, or NaN
Fin(v) == [k |-> "fin", v |-> v]

NaN == [k |-> "nan", v |-> 0]

IsNaN(x) == x.k = "nan"

\* Sharing.  Where a value is computed once and used several times, the
\* model writes  CHOOSE r \in {e : x \in {v}} : TRUE  for "e, where x is v".

\* floor(a * b / FS) for 0 <= a < 2^31 and 0 <= b < 10^8 with a quotient
\* below 2^31: long multiplication in limbs of 10^4, so that no intermediate
\* leaves the 32-bit range
MulFS(a, b) ==
    LET a1 == a \div 10^4
        a0 == a % 10^4
        b1 == b \div 10^4
        b0 == b % 10^4
        c  == a1 * b0 + a0 * b1
    IN  a1 * b1 * 10 + c \div 10^3 + ((c % 10^3) * 10^4 + a0 * b0) \div FS

\* floor(a * n / d) for a >= 0 and small n, d
MulDec(a, n, d) == (a \div d) * n + ((a % d) * n) \div d

\* number of decimal digits of 1 <= n < 2^31
Digits(n) == Cardinality({e \in 0..9 : 10^e <= n})

\* the decimal exponent e of a finite n >= 1: 10^e <= n < 10^(e+1)
Exponent(n) == IF n.hi = 0 THEN Digits(n.lo) - 1 ELSE Digits(n.hi) + 5

\* the leading 8 digits of a finite n >= 1, as a fixed-point number in [1, 10)
Mantissa(n) ==
    IF n.hi = 0 THEN n.lo * 10^(7 - Exponent(n))
    ELSE LET j == Digits(n.hi) - 2
         IN  IF j < 0 THEN n.hi * 10^7 + n.lo * 10
             ELSE n.hi * 10^(6 - j) + n.lo \div 10^j

\* bits of the fraction of a logarithm that are computed
LogBits == 24

\* one step of the logarithm: squaring doubles the logarithm, and the square
\* reaching 10 shows the next bit; w is the weight of that bit
Log10Step(s) ==
    CHOOSE r \in
        { IF sq >= 10 * FS
          THEN [m |-> sq \div 10, w |-> s.w \div 2, acc |-> s.acc + s.w \div 2]
          ELSE [m |-> sq, w |-> s.w \div 2, acc |-> s.acc]
          : sq \in {MulFS(s.m, s.m)} } : TRUE

\* log10 of a fixed-point m in [1, 10), bit by bit, the weights kept with 6
\* guard bits
Log10Frac(m) ==
    LET step[i \in 0..LogBits] ==
            IF i = 0 THEN [m |-> m, w |-> FS * 64, acc |-> 0]
            ELSE CHOOSE r \in {Log10Step(s) : s \in {step[i - 1]}} : TRUE
    IN  step[LogBits].acc \div 64

\* Math.log10(n / 10^p) for a finite n >= 1, in fixed point
Log10Over(n, p) == (Exponent(n) - p) * FS + Log10Frac(Mantissa(n))

\* the decimal literal n/d of the program, in fixed point
Dec(n, d) == Fin((n * FS) \div d)

\* a whole amount of money, in fixed point
Money(n) == Fin(n * CS)

\* x * f for x >= 0 and a dimensionless f >= 0
Times(x, f) == IF IsNaN(x) \/ IsNaN(f) THEN NaN ELSE Fin(MulFS(x.v, f.v))

\* x * (n/d) for the decimal literal n/d of the program
TimesDec(x, n, d) ==
    IF IsNaN(x) THEN NaN
    ELSE IF x.v < 0 THEN Fin(-MulDec(-x.v, n, d)) ELSE Fin(MulDec(x.v, n, d))

\* x * (n/d) * (m/e) for two decimal literals multiplied in turn; the product
\* loses no digit before the last multiplication
TimesDecDec(x, n, d, m, e) == TimesDec(x, n * m, d * e)

\* x + y and x - y, both of one scale
Plus(x, y) == IF IsNaN(x) \/ IsNaN(y) THEN NaN ELSE Fin(x.v + y.v)

Minus(x, y) == IF IsNaN(x) \/ IsNaN(y) THEN NaN ELSE Fin(x.v - y.v)

\* Math.max and Math.min: NaN if an operand is NaN
MathMax(x, y) ==
    IF IsNaN(x) \/ IsNaN(y) THEN NaN ELSE IF x.v < y.v THEN y ELSE x

MathMin(x, y) ==
    IF IsNaN(x) \/ IsNaN(y) THEN NaN ELSE IF y.v < x.v THEN y ELSE x

\* Math.round of a fixed-point x of the given scale: floor(x + 0.5), in the
\* same scale
MathRound(x, scale) ==
    IF IsNaN(x) THEN NaN ELSE Fin(((x.v + scale \div 2) \div scale) * scale)

\* Math.log10(n / 10^p) for a number n of the form: finite and >= 1, or NaN
MathLog10Over(n, p) == IF n.k = "nan" THEN NaN ELSE Fin(Log10Over(n, p))

\* ------------------------------------------------------------------------
\* Constants of the program
\* ------------------------------------------------------------------------

SECURITY_WEIGHTS ==
    [BACKUPS           |-> Dec(15, 100),
     MFA               |-> Dec(2, 10),
     PHISHING_TRAINING |-> Dec(15, 100),
     VENDOR_REVIEWS    |-> Dec(25, 100),
     IR_TABLETOP       |-> Dec(1, 10),
     BASE_SECURITY     |-> Dec(15, 100)]

COST_CATEGORIES ==
    << [name |-> "Emergency IT/Forensics",     baseCost |-> 85000],
       [name |-> "Legal/Compliance",           baseCost |-> 120000],
       [name |-> "PR/Client Communications",   baseCost |-> 45000],
       [name |-> "Revenue Loss",               baseCost |-> 180000],
       [name |-> "Temporary Systems",          baseCost |-> 60000],
       [name |-> "Staff Overtime",             baseCost |-> 40000],
       [name |-> "Client Churn",               baseCost |-> 390000],
       [name |-> "Insurance Premium Increase", baseCost |-> 25000],
       [name |-> "Security Overhaul",          baseCost |-> 150000],
       [name |-> "Regulatory Fines",           baseCost |-> 75000],
       [name |-> "Audit Costs",                baseCost |-> 30000] >>

THREAT_SCENARIOS ==
    << [name |-> "Phishing",      baseCost |-> 300000,
        frequency |-> Dec(3, 10),   severity |-> Dec(7, 10)],
       [name |-> "Ransomware",    baseCost |-> 800000,
        frequency |-> Dec(15, 100), severity |-> Dec(9, 10)],
       [name |-> "Vendor Breach", baseCost |-> 450000,
        frequency |-> Dec(2, 10),   severity |-> Dec(6, 10)] >>

INPUT_LIMITS ==
    [employees |-> [min |-> Whole(1), max |-> Whole(1000000)],
     revenue   |-> [min |-> Whole(0), max |-> Num(100000, 0)],
     insurance |-> [min |-> Whole(0), max |-> Whole(50000000)]]

NumericFields == {"employees", "revenue", "insurance"}

Controls ==
    {"backupsIsolated", "mfaEnabled", "phishingTraining", "vendorReviews", "irTabletop"}

PercentileKeys == {"5th", "25th", "Median", "75th", "95th"}

Tabs == {"instructions", "inputs", "results", "breakdown", "summary"}

\* ------------------------------------------------------------------------
\* The risk computation (the body of the useMemo callback)
\* ------------------------------------------------------------------------

\* faulty variant of percentilesAround: the 75th percentile multiplies by 0.65
\* in place of 1.65
percentilesAround_typo(adjustedBase) ==
    [key \in PercentileKeys |->
            CASE key = "5th"    ->
                    MathRound(MathMax(TimesDec(adjustedBase, 15, 100),
                                      Minus(adjustedBase,
                                            TimesDecDec(adjustedBase, 6, 10, 15, 10))),
                              CS)
              [] key = "25th"   -> MathRound(TimesDec(adjustedBase, 55, 100), CS)
              [] key = "Median" -> MathRound(adjustedBase, CS)
              [] key = "75th"   -> MathRound(TimesDec(adjustedBase, 65, 100), CS)
              [] key = "95th"   ->
                    MathRound(TimesDecDec(adjustedBase, 18, 10, 22, 10), CS)]

\* faulty variant of percentilesAround: baseVariance multiplied by 0.5 in
\* place of 1.5
percentilesAround_variance(adjustedBase) ==
    [key \in PercentileKeys |->
            CASE key = "5th"    ->
                    MathRound(MathMax(TimesDec(adjustedBase, 15, 100),
                                      Minus(adjustedBase,
                                            TimesDecDec(adjustedBase, 6, 10, 5, 10))),
                              CS)
              [] key = "25th"   -> MathRound(TimesDec(adjustedBase, 55, 100), CS)
              [] key = "Median" -> MathRound(adjustedBase, CS)
              [] key = "75th"   -> MathRound(TimesDec(adjustedBase, 165, 100), CS)
              [] key = "95th"   ->
                    MathRound(TimesDecDec(adjustedBase, 18, 10, 22, 10), CS)]

\* the five percentiles around a given adjustedBase; baseVariance * 1.5 is
\* adjustedBase * 0.6 * 1.5 and longTailFactor is 1.8
percentilesAround(adjustedBase) ==
    [key \in PercentileKeys |->
            CASE key = "5th"    ->
                    MathRound(MathMax(TimesDec(adjustedBase, 15, 100),
                                      Minus(adjustedBase,
                                            TimesDecDec(adjustedBase, 6, 10, 15, 10))),
                              CS)
              [] key = "25th"   -> MathRound(TimesDec(adjustedBase, 55, 100), CS)
              [] key = "Median" -> MathRound(adjustedBase, CS)
              [] key = "75th"   -> MathRound(TimesDec(adjustedBase, 165, 100), CS)
              [] key = "95th"   ->
                    MathRound(TimesDecDec(adjustedBase, 18, 10, 22, 10), CS)]

generateRealisticPercentiles(baseCost, organizationFactors) ==
    CHOOSE r \in
        { percentilesAround(adjustedBase) : adjustedBase \in
            { Times(Times(Times(Money(baseCost), organizationFactors.sizeFactor),
                          organizationFactors.revenueFactor),
                    Minus(Dec(1, 1), organizationFactors.riskReduction)) } } : TRUE

\* faulty variant of securityScore: BASE_SECURITY is left out of the sum
securityScore_nobase(inp) ==
    LET w(on, weight) == IF on THEN weight ELSE Fin(0)
    IN  Plus(Plus(Plus(Plus(w(inp.backupsIsolated, SECURITY_WEIGHTS.BACKUPS),
                            w(inp.mfaEnabled, SECURITY_WEIGHTS.MFA)),
                       w(inp.phishingTraining, SECURITY_WEIGHTS.PHISHING_TRAINING)),
                  w(inp.vendorReviews, SECURITY_WEIGHTS.VENDOR_REVIEWS)),
             w(inp.irTabletop, SECURITY_WEIGHTS.IR_TABLETOP))

securityScore(inp) ==
    LET w(on, weight) == IF on THEN weight ELSE Fin(0)
    IN  Plus(Plus(Plus(Plus(Plus(w(inp.backupsIsolated, SECURITY_WEIGHTS.BACKUPS),
                                 w(inp.mfaEnabled, SECURITY_WEIGHTS.MFA)),
                            w(inp.phishingTraining, SECURITY_WEIGHTS.PHISHING_TRAINING)),
                       w(inp.vendorReviews, SECURITY_WEIGHTS.VENDOR_REVIEWS)),
                  w(inp.irTabletop, SECURITY_WEIGHTS.IR_TABLETOP)),
             SECURITY_WEIGHTS.BASE_SECURITY)

\* faulty variant of sizeFactor: the outer Math.max(1, ...) is left out
sizeFactor_nofloor(inp) ==
    CHOOSE r \in
        { Plus(TimesDec(log, 2, 10), Dec(1, 1))
          : log \in {MathLog10Over(NumMax(inp.employees, Whole(10)), 2)} } : TRUE

sizeFactor(inp) ==
    CHOOSE r \in
        { MathMax(Dec(1, 1), Plus(TimesDec(log, 2, 10), Dec(1, 1)))
          : log \in {MathLog10Over(NumMax(inp.employees, Whole(10)), 2)} } : TRUE

\* faulty variant of revenueFactor: the coefficient 0.2 of sizeFactor in place
\* of 0.15
revenueFactor_size(inp) ==
    CHOOSE r \in
        { MathMax(Dec(1, 1), Plus(TimesDec(log, 2, 10), Dec(1, 1)))
          : log \in {MathLog10Over(NumMax(inp.revenue, Whole(1000000)), 7)} } : TRUE

revenueFactor(inp) ==
    CHOOSE r \in
        { MathMax(Dec(1, 1), Plus(TimesDec(log, 15, 100), Dec(1, 1)))
          : log \in {MathLog10Over(NumMax(inp.revenue, Whole(1000000)), 7)} } : TRUE

\* faulty variant of riskReduction: a ceiling of 0.50 in place of 0.75
riskReduction_tight(inp) == MathMin(TimesDec(securityScore(inp), 65, 100), Dec(50, 100))

\* faulty variant of riskReduction: Math.max in place of Math.min
riskReduction_max(inp) == MathMax(TimesDec(securityScore(inp), 65, 100), Dec(75, 100))

riskReduction(inp) == MathMin(TimesDec(securityScore(inp), 65, 100), Dec(75, 100))

organizationFactors(inp) ==
    [sizeFactor    |-> sizeFactor(inp),
     revenueFactor |-> revenueFactor(inp),
     riskReduction |-> riskReduction(inp)]

\* faulty variant of directReduction: vendorReviews reduces Regulatory Fines
\* by 0.60 in place of 0.45
directReduction_large(category, inp) ==
    LET add(r, name, on, amount) ==
            IF category.name = name /\ on THEN Plus(r, amount) ELSE r
    IN  add(add(add(add(add(Fin(0),
            "Emergency IT/Forensics", inp.backupsIsolated, Dec(35, 100)),
            "Revenue Loss", inp.mfaEnabled, Dec(25, 100)),
            "Client Churn", inp.phishingTraining, Dec(30, 100)),
            "Regulatory Fines", inp.vendorReviews, Dec(60, 100)),
            "Staff Overtime", inp.irTabletop, Dec(40, 100))

\* faulty variant of directReduction: the amounts of vendorReviews and
\* irTabletop exchanged
directReduction_swapped(category, inp) ==
    LET add(r, name, on, amount) ==
            IF category.name = name /\ on THEN Plus(r, amount) ELSE r
    IN  add(add(add(add(add(Fin(0),
            "Emergency IT/Forensics", inp.backupsIsolated, Dec(35, 100)),
            "Revenue Loss", inp.mfaEnabled, Dec(25, 100)),
            "Client Churn", inp.phishingTraining, Dec(30, 100)),
            "Regulatory Fines", inp.vendorReviews, Dec(40, 100)),
            "Staff Overtime", inp.irTabletop, Dec(45, 100))

\* the reductions mapped to one category by the controls that are on
directReduction(category, inp) ==
    LET add(r, name, on, amount) ==
            IF category.name = name /\ on THEN Plus(r, amount) ELSE r
    IN  add(add(add(add(add(Fin(0),
            "Emergency IT/Forensics", inp.backupsIsolated, Dec(35, 100)),
            "Revenue Loss", inp.mfaEnabled, Dec(25, 100)),
            "Client Churn", inp.phishingTraining, Dec(30, 100)),
            "Regulatory Fines", inp.vendorReviews, Dec(45, 100)),
            "Staff Overtime", inp.irTabletop, Dec(40, 100))

enabledControls(inp) == Cardinality({c \in Controls : inp[c]})

\* faulty variant of synergyBonus: the two bonuses exchanged
synergyBonus_swapped(inp) ==
    IF enabledControls(inp) >= 4 THEN Dec(10, 100)
    ELSE IF enabledControls(inp) >= 3 THEN Dec(15, 100)
    ELSE Fin(0)

\* faulty variant of synergyBonus: each threshold compared with > in place of
\* >=
synergyBonus_strict(inp) ==
    IF enabledControls(inp) > 4 THEN Dec(15, 100)
    ELSE IF enabledControls(inp) > 3 THEN Dec(10, 100)
    ELSE Fin(0)

synergyBonus(inp) ==
    IF enabledControls(inp) >= 4 THEN Dec(15, 100)
    ELSE IF enabledControls(inp) >= 3 THEN Dec(10, 100)
    ELSE Fin(0)

reductionFactor(category, inp) ==
    MathMin(Plus(directReduction(category, inp), synergyBonus(inp)), Dec(70, 100))

\* faulty variant of adjustedCostEntry: adjustedCost without Math.round
adjustedCostEntry_unrounded(category, inp, size) ==
    [name            |-> category.name,
     baseCost        |-> category.baseCost,
     reductionFactor |-> reductionFactor(category, inp),
     adjustedCost    |->
         Times(Times(Money(category.baseCost),
                     Minus(Dec(1, 1), reductionFactor(category, inp))),
               size)]

\* faulty variant of adjustedCostEntry: baseCost multiplied by reductionFactor
\* in place of 1 - reductionFactor
adjustedCostEntry_reduced(category, inp, size) ==
    [name            |-> category.name,
     baseCost        |-> category.baseCost,
     reductionFactor |-> reductionFactor(category, inp),
     adjustedCost    |->
         MathRound(Times(Times(Money(category.baseCost),
                               reductionFactor(category, inp)),
                         size),
                   CS)]

\* faulty variant of adjustedCostEntry: revenueFactor in place of sizeFactor
adjustedCostEntry_revenue(category, inp, size) ==
    [name            |-> category.name,
     baseCost        |-> category.baseCost,
     reductionFactor |-> reductionFactor(category, inp),
     adjustedCost    |->
         MathRound(Times(Times(Money(category.baseCost),
                               Minus(Dec(1, 1), reductionFactor(category, inp))),
                         revenueFactor(inp)),
                   CS)]

\* faulty variant of adjustedCostEntry: adjustedCost without the sizeFactor
adjustedCostEntry_nosize(category, inp, size) ==
    [name            |-> category.name,
     baseCost        |-> category.baseCost,
     reductionFactor |-> reductionFactor(category, inp),
     adjustedCost    |->
         MathRound(Times(Money(category.baseCost),
                         Minus(Dec(1, 1), reductionFactor(category, inp))),
                   CS)]

\* one entry of adjustedCosts, given the sizeFactor computed before the map
adjustedCostEntry(category, inp, size) ==
    [name            |-> category.name,
     baseCost        |-> category.baseCost,
     reductionFactor |-> reductionFactor(category, inp),
     adjustedCost    |->
         MathRound(Times(Times(Money(category.baseCost),
                               Minus(Dec(1, 1), reductionFactor(category, inp))),
                         size),
                   CS)]

\* faulty variant of SumAdjusted: the last entry is left out of the sum
SumAdjusted_short(costs) ==
    LET sum[n \in 0..Len(costs)] ==
            IF n = 0 THEN Fin(0) ELSE Plus(sum[n - 1], costs[n].adjustedCost)
    IN  sum[Len(costs) - 1]

\* adjustedCosts.reduce((sum, cat) => sum + cat.adjustedCost, 0)
SumAdjusted(costs) ==
    LET sum[n \in 0..Len(costs)] ==
            IF n = 0 THEN Fin(0) ELSE Plus(sum[n - 1], costs[n].adjustedCost)
    IN  sum[Len(costs)]

\* the value of a useMemo callback that threw
Null == [failed |-> TRUE]

\* whether a statement of the try block throws for the inputs inp: none does, arithmetic on NaN
\* yields NaN and every property read is of an object that exists
Throws(inp) == FALSE

\* the try block, given the organizationFactors computed at its start
tryBlock(inp, factors) ==
    LET scenarios ==
            [i \in DOMAIN THREAT_SCENARIOS |->
                [name        |-> THREAT_SCENARIOS[i].name,
                 baseCost    |-> THREAT_SCENARIOS[i].baseCost,
                 frequency   |-> THREAT_SCENARIOS[i].frequency,
                 severity    |-> THREAT_SCENARIOS[i].severity,
                 percentiles |->
                     generateRealisticPercentiles(THREAT_SCENARIOS[i].baseCost, factors)]]
        adjustedCosts ==
            [i \in DOMAIN COST_CATEGORIES |->
                adjustedCostEntry(COST_CATEGORIES[i], inp, factors.sizeFactor)]
    IN  [scenarios     |-> scenarios,
         costBreakdown |-> adjustedCosts,
         totalCost     |-> SumAdjusted(adjustedCosts),
         securityScore |-> MathRound(TimesDec(securityScore(inp), 100, 1), FS),
         riskReduction |-> MathRound(TimesDec(factors.riskReduction, 100, 1), FS)]

\* the useMemo callback
ComputeResults(inp) ==
    IF Throws(inp) THEN Null
    ELSE CHOOSE r \in
            {tryBlock(inp, factors) : factors \in {organizationFactors(inp)}} : TRUE

\* ------------------------------------------------------------------------
\* Binary64 arithmetic: a number of the program as the language holds it, a
\* significand m of 53 bits and an exponent e for the value m * 2^e.  A long
\* natural number is a sequence of limbs, the least significant first.
\* ------------------------------------------------------------------------

LimbBits == 14

Limb == 2^LimbBits

SignificandBits == 53

LimbAt(X, i) == IF i \in DOMAIN X THEN X[i] ELSE 0

\* the limbs of X, some of them Limb or more, brought below Limb
Carry(X) ==
    LET c[i \in 0..Len(X)] == IF i = 0 THEN 0 ELSE (X[i] + c[i - 1]) \div Limb
    IN  [i \in 1..(Len(X) + 1) |->
            IF i <= Len(X) THEN (X[i] + c[i - 1]) % Limb ELSE c[Len(X)]]

LongOf(n) == <<n % Limb, (n \div Limb) % Limb, n \div (Limb * Limb)>>

LongAdd(X, Y) ==
    Carry([i \in 1..(IF Len(X) < Len(Y) THEN Len(Y) ELSE Len(X)) |->
              LimbAt(X, i) + LimbAt(Y, i)])

\* X - Y for X >= Y
LongSub(X, Y) ==
    LET n == IF Len(X) < Len(Y) THEN Len(Y) ELSE Len(X)
        b[i \in 0..n] ==
            IF i = 0 THEN 0
            ELSE IF LimbAt(X, i) - LimbAt(Y, i) - b[i - 1] < 0 THEN 1 ELSE 0
    IN  [i \in 1..n |-> (LimbAt(X, i) - LimbAt(Y, i) - b[i - 1] + Limb) % Limb]

\* X * Y for two significands
LongMul(X, Y) ==
    LET column(k) ==
            LET s[i \in 0..Len(X)] ==
                    IF i = 0 THEN 0 ELSE s[i - 1] + X[i] * LimbAt(Y, k + 1 - i)
            IN  s[Len(X)]
    IN  Carry([k \in 1..(Len(X) + Len(Y) - 1) |-> column(k)])

\* the quotient and the remainder of X by a small d
LongDiv(X, d) ==
    LET r[i \in 1..(Len(X) + 1)] ==
            IF i = Len(X) + 1 THEN 0 ELSE (r[i + 1] * Limb + X[i]) % d
    IN  [quotient  |-> [i \in 1..Len(X) |-> (r[i + 1] * Limb + X[i]) \div d],
         remainder |-> r[1]]

\* X < Y
LongLess(X, Y) ==
    LET n == IF Len(X) < Len(Y) THEN Len(Y) ELSE Len(X)
        less[i \in 0..n] ==
            IF i = 0 THEN FALSE
            ELSE IF LimbAt(X, i) # LimbAt(Y, i) THEN LimbAt(X, i) < LimbAt(Y, i)
            ELSE less[i - 1]
    IN  less[n]

LongIsZero(X) == \A i \in DOMAIN X : X[i] = 0

\* the number of bits of X: 0 for zero
BitLength(X) ==
    IF LongIsZero(X) THEN 0
    ELSE LET top == CHOOSE i \in DOMAIN X :
                        X[i] # 0 /\ \A j \in DOMAIN X : j > i => X[j] = 0
         IN  (top - 1) * LimbBits + Cardinality({b \in 0..(LimbBits - 1) : 2^b <= X[top]})

\* bit i of X, bit 0 the least significant
BitAt(X, i) == (LimbAt(X, i \div LimbBits + 1) \div 2^(i % LimbBits)) % 2

\* floor(X / 2^p)
ShiftRight(X, p) ==
    LET q == p \div LimbBits
        r == p % LimbBits
    IN  [i \in 1..Len(X) |->
            LimbAt(X, i + q) \div 2^r + (LimbAt(X, i + q + 1) % 2^r) * 2^(LimbBits - r)]

\* X * 2^p
ShiftLeft(X, p) ==
    LET q == p \div LimbBits
        r == p % LimbBits
    IN  [i \in 1..(Len(X) + q + 1) |->
            (LimbAt(X, i - q) % 2^(LimbBits - r)) * 2^r
            + LimbAt(X, i - q - 1) \div 2^(LimbBits - r)]

\* X / 2^p rounded to the nearest whole number, a tie to the even one
RoundShift(X, p) ==
    LET q    == ShiftRight(X, p)
        half == BitAt(X, p - 1) = 1
        rest == \E i \in 0..(p - 2) : BitAt(X, i) = 1
    IN  IF half /\ (rest \/ BitAt(q, 0) = 1) THEN LongAdd(q, <<1>>) ELSE q

Significand(X) == [i \in 1..4 |-> LimbAt(X, i)]

Zero64 == [m |-> Significand(<< >>), e |-> 0]

\* the binary64 number nearest to X * 2^e
Binary64(X, e) ==
    LET n == BitLength(X)
    IN  IF n = 0 THEN Zero64
        ELSE IF n <= SignificandBits
             THEN [m |-> Significand(ShiftLeft(X, SignificandBits - n)),
                   e |-> e - (SignificandBits - n)]
        ELSE LET rounded == RoundShift(X, n - SignificandBits)
             IN  IF BitLength(rounded) > SignificandBits
                 THEN [m |-> Significand(ShiftRight(rounded, 1)),
                       e |-> e + (n - SignificandBits) + 1]
                 ELSE [m |-> Significand(rounded), e |-> e + (n - SignificandBits)]

\* the value of the whole number n
Whole64(n) == Binary64(LongOf(n), 0)

\* the value of the decimal literal n/d: the binary64 number nearest to it
Literal64(n, d) ==
    LET division == LongDiv(ShiftLeft(LongOf(n), 5 * LimbBits), d)
        quotient == division.quotient
    IN  Binary64([i \in DOMAIN quotient |->
                      IF i = 1 /\ division.remainder # 0
                      THEN quotient[1] - (quotient[1] % 2) + 1
                      ELSE quotient[i]],
                 -(5 * LimbBits))

IsZero64(x) == LongIsZero(x.m)

\* x < y for numbers that are not negative
Less64(x, y) ==
    IF IsZero64(y) THEN FALSE
    ELSE IF IsZero64(x) THEN TRUE
    ELSE IF x.e # y.e THEN x.e < y.e
    ELSE LongLess(x.m, y.m)

Max64(x, y) == IF Less64(x, y) THEN y ELSE x

Min64(x, y) == IF Less64(y, x) THEN y ELSE x

\* x * y
Times64(x, y) ==
    IF IsZero64(x) \/ IsZero64(y) THEN Zero64
    ELSE Binary64(LongMul(x.m, y.m), x.e + y.e)

\* x + y for numbers that are not negative
Plus64(x, y) ==
    IF IsZero64(x) THEN y
    ELSE IF IsZero64(y) THEN x
    ELSE LET low == IF x.e < y.e THEN x.e ELSE y.e
         IN  Binary64(LongAdd(ShiftLeft(x.m, x.e - low), ShiftLeft(y.m, y.e - low)), low)

\* x - y for x >= y >= 0
Minus64(x, y) ==
    IF IsZero64(y) THEN x
    ELSE LET low == IF x.e < y.e THEN x.e ELSE y.e
         IN  Binary64(LongSub(ShiftLeft(x.m, x.e - low), ShiftLeft(y.m, y.e - low)), low)

\* Math.round(x) for 0 <= x < 2^30: floor(x + 1/2), a whole number
MathRound64(x) ==
    IF IsZero64(x) \/ x.e < -(SignificandBits + 1) THEN 0
    ELSE LET whole == IF x.e >= 0 THEN ShiftLeft(x.m, x.e)
                      ELSE ShiftRight(LongAdd(x.m, ShiftLeft(<<1>>, -x.e - 1)), -x.e)
         IN  whole[1] + whole[2] * Limb + whole[3] * Limb * Limb

\* ------------------------------------------------------------------------
\* The scenario side of the risk computation in binary64, for the profiles
\* whose employees and revenue are powers of ten: of a power of ten
\* Math.log10 returns the whole exponent
\* ------------------------------------------------------------------------

SECURITY_WEIGHTS64 ==
    [BACKUPS           |-> Literal64(15, 100),
     MFA               |-> Literal64(2, 10),
     PHISHING_TRAINING |-> Literal64(15, 100),
     VENDOR_REVIEWS    |-> Literal64(25, 100),
     IR_TABLETOP       |-> Literal64(1, 10),
     BASE_SECURITY     |-> Literal64(15, 100)]

\* Math.log10(n / 10^p) for a power of ten n >= 10^p
MathLog10Over64(n, p) == Whole64(Exponent(n) - p)

securityScore64(inp) ==
    LET w(on, weight) == IF on THEN weight ELSE Zero64
    IN  Plus64(Plus64(Plus64(Plus64(Plus64(
            w(inp.backupsIsolated, SECURITY_WEIGHTS64.BACKUPS),
            w(inp.mfaEnabled, SECURITY_WEIGHTS64.MFA)),
            w(inp.phishingTraining, SECURITY_WEIGHTS64.PHISHING_TRAINING)),
            w(inp.vendorReviews, SECURITY_WEIGHTS64.VENDOR_REVIEWS)),
            w(inp.irTabletop, SECURITY_WEIGHTS64.IR_TABLETOP)),
            SECURITY_WEIGHTS64.BASE_SECURITY)

sizeFactor64(inp) ==
    Max64(Whole64(1),
          Plus64(Times64(MathLog10Over64(NumMax(inp.employees, Whole(10)), 2),
                         Literal64(2, 10)),
                 Whole64(1)))

revenueFactor64(inp) ==
    Max64(Whole64(1),
          Plus64(Times64(MathLog10Over64(NumMax(inp.revenue, Whole(1000000)), 7),
                         Literal64(15, 100)),
                 Whole64(1)))

riskReduction64(inp) ==
    Min64(Times64(securityScore64(inp), Literal64(65, 100)), Literal64(75, 100))

organizationFactors64(inp) ==
    [sizeFactor    |-> sizeFactor64(inp),
     revenueFactor |-> revenueFactor64(inp),
     riskReduction |-> riskReduction64(inp)]

adjustedBase64(baseCost, factors) ==
    Times64(Times64(Times64(Whole64(baseCost), factors.sizeFactor),
                    factors.revenueFactor),
            Minus64(Whole64(1), factors.riskReduction))

\* faulty variant of generateRealisticPercentiles64: longTailFactor is left
\* out of the 95th percentile
generateRealisticPercentiles64_notail(baseCost, factors) ==
    LET adjustedBase   == adjustedBase64(baseCost, factors)
        baseVariance   == Times64(adjustedBase, Literal64(6, 10))
    IN  [key \in PercentileKeys |->
            CASE key = "5th"    ->
                    MathRound64(Max64(Times64(adjustedBase, Literal64(15, 100)),
                                      Minus64(adjustedBase,
                                              Times64(baseVariance, Literal64(15, 10)))))
              [] key = "25th"   -> MathRound64(Times64(adjustedBase, Literal64(55, 100)))
              [] key = "Median" -> MathRound64(adjustedBase)
              [] key = "75th"   -> MathRound64(Times64(adjustedBase, Literal64(165, 100)))
              [] key = "95th"   -> MathRound64(Times64(adjustedBase, Literal64(22, 10)))]

generateRealisticPercentiles64(baseCost, factors) ==
    LET adjustedBase   == adjustedBase64(baseCost, factors)
        baseVariance   == Times64(adjustedBase, Literal64(6, 10))
        longTailFactor == Literal64(18, 10)
    IN  [key \in PercentileKeys |->
            CASE key = "5th"    ->
                    MathRound64(Max64(Times64(adjustedBase, Literal64(15, 100)),
                                      Minus64(adjustedBase,
                                              Times64(baseVariance, Literal64(15, 10)))))
              [] key = "25th"   -> MathRound64(Times64(adjustedBase, Literal64(55, 100)))
              [] key = "Median" -> MathRound64(adjustedBase)
              [] key = "75th"   -> MathRound64(Times64(adjustedBase, Literal64(165, 100)))
              [] key = "95th"   ->
                    MathRound64(Times64(Times64(adjustedBase, longTailFactor),
                                        Literal64(22, 10)))]

\* the percentiles of the three scenarios, as the map over THREAT_SCENARIOS
\* makes them
scenarioPercentiles64(inp) ==
    [i \in DOMAIN THREAT_SCENARIOS |->
        generateRealisticPercentiles64(THREAT_SCENARIOS[i].baseCost,
                                       organizationFactors64(inp))]

\* ------------------------------------------------------------------------
\* The signup webhook (src/netlify/functions/identity-signup.js)
\* ------------------------------------------------------------------------

\* JSON text is a sequence of tokens; a JavaScript value is a record tagged t.

JNull == [t |-> "null"]

JUndefined == [t |-> "undefined"]

JString(str) == [t |-> "string", s |-> str]

JArray(elements) == [t |-> "array", items |-> elements]

\* an object, its members a sequence of [key, value] in insertion order
JObject(members) == [t |-> "object", members |-> members]

\* the tokens the bodies of the events are made of
BodyTokens == {"{", "}", ":", "\"user\"", "null"}

\* longest body of an event, in tokens
MaxBody == 6

\* the result of JSON.parse(text): [ok, value], ok false where it throws a
\* SyntaxError.  The grammar is JSON's, restricted to BodyTokens: null, the
\* string "user", the empty object and an object of one member
JSONparse(text) ==
    LET n == Len(text)
        at[i \in 1..(n + 1)] ==
            IF i > n THEN [ok |-> FALSE, end |-> i, value |-> JUndefined]
            ELSE IF text[i] = "null" THEN [ok |-> TRUE, end |-> i + 1, value |-> JNull]
            ELSE IF text[i] = "\"user\""
                 THEN [ok |-> TRUE, end |-> i + 1, value |-> JString("user")]
            ELSE IF text[i] = "{" /\ i + 1 <= n /\ text[i + 1] = "}"
                 THEN [ok |-> TRUE, end |-> i + 2, value |-> JObject(<< >>)]
            ELSE IF /\ text[i] = "{"
                    /\ i + 3 <= n
                    /\ text[i + 1] = "\"user\""
                    /\ text[i + 2] = ":"
                    /\ at[i + 3].ok
                    /\ at[i + 3].end <= n
                    /\ text[at[i + 3].end] = "}"
                 THEN [ok    |-> TRUE,
                       end   |-> at[i + 3].end + 1,
                       value |-> JObject(<<[key |-> "user", value |-> at[i + 3].value]>>)]
            ELSE [ok |-> FALSE, end |-> i, value |-> JUndefined]
    IN  IF at[1].ok /\ at[1].end = n + 1
        THEN [ok |-> TRUE, value |-> at[1].value]
        ELSE [ok |-> FALSE, value |-> JUndefined]

RECURSIVE JSONstringify(_)

\* JSON.stringify(value) for strings, null, arrays and objects
JSONstringify(value) ==
    CASE value.t = "null"   -> <<"null">>
      [] value.t = "string" -> <<"\"" \o value.s \o "\"">>
      [] value.t = "array"  ->
            LET parts[i \in 0..Len(value.items)] ==
                    IF i = 0 THEN << >>
                    ELSE parts[i - 1] \o (IF i > 1 THEN <<",">> ELSE << >>)
                             \o JSONstringify(value.items[i])
            IN  <<"[">> \o parts[Len(value.items)] \o <<"]">>
      [] value.t = "object" ->
            LET parts[i \in 0..Len(value.members)] ==
                    IF i = 0 THEN << >>
                    ELSE parts[i - 1] \o (IF i > 1 THEN <<",">> ELSE << >>)
                             \o <<"\"" \o value.members[i].key \o "\"", ":">>
                             \o JSONstringify(value.members[i].value)
            IN  <<"{">> \o parts[Len(value.members)] \o <<"}">>

\* whether a value is truthy
Truthy(value) ==
    CASE value.t \in {"null", "undefined"} -> FALSE
      [] value.t = "string"                 -> value.s # ""
      [] OTHER                              -> TRUE

\* value.user for a value that is neither null nor undefined
UserOf(value) ==
    IF value.t = "object" /\ \E i \in DOMAIN value.members : value.members[i].key = "user"
    THEN value.members[CHOOSE i \in DOMAIN value.members :
                            value.members[i].key = "user"].value
    ELSE JUndefined

\* payload && (payload.user || payload)
user(payload) ==
    IF ~Truthy(payload) THEN payload
    ELSE IF Truthy(UserOf(payload)) THEN UserOf(payload)
    ELSE payload

\* event.body || '{}'
bodyOrEmptyObject(ev) == IF ~ev.hasBody \/ ev.body = << >> THEN <<"{", "}">> ELSE ev.body

\* the outcome of an async handler whose error escapes: its promise rejects
Rejected == [rejected |-> TRUE]

\* faulty variant of handler: no try/catch around the parsing
handler_nocatch(ev) ==
    IF ~JSONparse(bodyOrEmptyObject(ev)).ok THEN Rejected
    ELSE [statusCode |-> 200,
          body |-> JSONstringify(JObject(<<[key   |-> "app_metadata",
                                           value |-> JObject(<<[key   |-> "roles",
                                                                value |-> JArray(<<JString("subscriber")>>)]>>)]>>))]

\* exports.handler: the response for an event
handler(ev) ==
    IF ~JSONparse(bodyOrEmptyObject(ev)).ok
    THEN [statusCode |-> 200, body |-> JSONstringify(JObject(<< >>))]
    ELSE [statusCode |-> 200,
          body |-> JSONstringify(JObject(<<[key   |-> "app_metadata",
                                           value |-> JObject(<<[key   |-> "roles",
                                                                value |-> JArray(<<JString("subscriber")>>)]>>)]>>))]

\* ------------------------------------------------------------------------
\* The component: form state, validation, input handler
\* ------------------------------------------------------------------------

VARIABLES inputs, activeTab, inputErrors, results

\* the event the webhook is invoked with and the responses it has given
VARIABLES event, responses

\* the percentiles of the three scenarios as a build in binary64 arithmetic
\* computes them; empty until it has
VARIABLES percentiles

vars == <<inputs, activeTab, inputErrors, results, event, responses, percentiles>>

\* an event, its body absent or a text
Event(hasBody, body) == [hasBody |-> hasBody, body |-> body]

\* number of probe values strictly inside each range that the edits try,
\* besides the limits of the range and their neighbours
Probes == 0

EmployeeProbes == <<Whole(99), Whole(10), Whole(5000)>>

RevenueProbes == <<Num(2, 500000), Whole(999999), Whole(10000000)>>

Prefix(seq, n) == {seq[i] : i \in {j \in DOMAIN seq : j <= n}}

\* the numbers an edit of each field may carry
EditValues ==
    [employees |-> {Whole(0), Whole(1), Whole(1000000), Whole(1000001)}
                       \cup Prefix(EmployeeProbes, Probes),
     revenue   |-> {Whole(-1), Whole(0), Num(100000, 0), Num(100000, 1)}
                       \cup Prefix(RevenueProbes, Probes),
     insurance |-> {Whole(-1), Whole(0), Whole(50000000), Whole(50000001)}]

\* values of type number that are no finite number
NonFinite == {NumNaN, NumInf, NumNegInf}

\* the bound message of a field, by the two limits it shows
BoundMessage(limits) == [min |-> limits.min, max |-> limits.max]

\* faulty variant of validateInput: a value that is not a number is rejected
validateInput_strict(field, value) ==
    IF field \notin DOMAIN INPUT_LIMITS THEN TRUE
    ELSE LET limits == INPUT_LIMITS[field]
         IN  value.k # "nan" /\ ~(NumLt(value, limits.min) \/ NumLt(limits.max, value))

\* the return value of validateInput
validateInput(field, value) ==
    IF field \notin DOMAIN INPUT_LIMITS THEN TRUE
    ELSE LET limits == INPUT_LIMITS[field]
         IN  ~(NumLt(value, limits.min) \/ NumLt(limits.max, value))

\* faulty variant of validateInputErrors: an accepted value leaves the error
\* of its field in place
validateInputErrors_keeps(field, value, prev) ==
    IF field \notin DOMAIN INPUT_LIMITS THEN prev
    ELSE IF validateInput(field, value)
         THEN prev
         ELSE [f \in DOMAIN prev \cup {field} |->
                  IF f = field THEN BoundMessage(INPUT_LIMITS[field]) ELSE prev[f]]

\* faulty variant of validateInputErrors: a rejected value replaces the whole
\* error map by the error of its field
validateInputErrors_replaces(field, value, prev) ==
    IF field \notin DOMAIN INPUT_LIMITS THEN prev
    ELSE IF validateInput(field, value)
         THEN [f \in DOMAIN prev \ {field} |-> prev[f]]
         ELSE [f \in {field} |-> BoundMessage(INPUT_LIMITS[field])]

\* the error map validateInput leaves behind
validateInputErrors(field, value, prev) ==
    IF field \notin DOMAIN INPUT_LIMITS THEN prev
    ELSE IF validateInput(field, value)
         THEN [f \in DOMAIN prev \ {field} |-> prev[f]]
         ELSE [f \in DOMAIN prev \cup {field} |->
                  IF f = field THEN BoundMessage(INPUT_LIMITS[field]) ELSE prev[f]]

\* the initial value of the inputs state
InitialInputs ==
    [employees        |-> Whole(250),
     revenue          |-> Whole(50000000),
     insurance        |-> Whole(1000000),
     backupsIsolated  |-> TRUE,
     mfaEnabled       |-> TRUE,
     phishingTraining |-> TRUE,
     vendorReviews    |-> TRUE,
     irTabletop       |-> TRUE]

\* Text.  The text of an input element is a sequence of one-character strings.

DecimalDigits == {"0", "1", "2", "3", "4", "5", "6", "7", "8", "9"}

DigitValue(c) ==
    CASE c = "0" -> 0 [] c = "1" -> 1 [] c = "2" -> 2 [] c = "3" -> 3 [] c = "4" -> 4
      [] c = "5" -> 5 [] c = "6" -> 6 [] c = "7" -> 7 [] c = "8" -> 8 [] c = "9" -> 9

\* whether text is a valid floating-point number, the only non-empty values an
\* input of type="number" has: an optional "-", digits and/or "." with
\* digits, an optional exponent
IsValidFloatingPointNumber(text) ==
    LET next(q, c) ==
            CASE q = "start" /\ c = "-"                                  -> "sign"
              [] q \in {"start", "sign", "int"} /\ c \in DecimalDigits   -> "int"
              [] q \in {"start", "sign", "int"} /\ c = "."               -> "dot"
              [] q \in {"dot", "frac"} /\ c \in DecimalDigits            -> "frac"
              [] q \in {"int", "frac"} /\ c \in {"e", "E"}               -> "e"
              [] q = "e" /\ c \in {"-", "+"}                             -> "esign"
              [] q \in {"e", "esign", "exp"} /\ c \in DecimalDigits      -> "exp"
              [] OTHER                                                   -> "bad"
        q[i \in 0..Len(text)] == IF i = 0 THEN "start" ELSE next(q[i - 1], text[i])
    IN  q[Len(text)] \in {"int", "frac", "exp"}

\* e.target.value of an input of type="number" holding the typed text: the
\* text if it is a valid number, the empty string otherwise
inputValue(text) == IF IsValidFloatingPointNumber(text) THEN text ELSE << >>

\* parseInt(text) for a text without leading white space or hexadecimal
\* prefix: the integer written by the optional sign and the longest run of
\* digits after it, NaN if that run is empty
parseInt(text) ==
    LET signed == Len(text) > 0 /\ text[1] \in {"-", "+"}
        first  == IF signed THEN 2 ELSE 1
        count  == Cardinality({j \in first..Len(text) :
                                  \A i \in first..j : text[i] \in DecimalDigits})
        mag[i \in 0..count] ==
            IF i = 0 THEN [hi |-> 0, lo |-> 0]
            ELSE LET t == mag[i - 1].lo * 10 + DigitValue(text[first + i - 1])
                 IN  [hi |-> mag[i - 1].hi * 10 + t \div Radix, lo |-> t % Radix]
        m      == mag[count]
    IN  IF count = 0 THEN NumNaN
        ELSE IF signed /\ text[1] = "-" /\ m.lo # 0 THEN Num(-m.hi - 1, Radix - m.lo)
        ELSE IF signed /\ text[1] = "-" THEN Num(-m.hi, 0)
        ELSE Num(m.hi, m.lo)

\* faulty variant of OrZero: the fallback to 0 is left out
OrZero_dropped(n) == n

\* n || 0 for a number n: 0 for NaN and for zero, n otherwise
OrZero(n) ==
    IF n.k = "nan" \/ (n.k = "fin" /\ n.hi = 0 /\ n.lo = 0) THEN Whole(0) ELSE n

\* the value an onChange handler of a number input passes to handleInputChange
onChangeValue(text) == OrZero(parseInt(inputValue(text)))

\* the texts typed into a number input: empty, letters, digits followed by a
\* letter, a lone sign, and two valid numbers that are no integer literals
TypedTexts ==
    { << >>, <<"a", "b", "c">>, <<"1", "2", "a">>, <<"-">>,
      <<"0", ".", "9">>, <<"-", "1", "e", "3">> }

\* the numbers handleInputChange can store in a field: those of the edits and
\* of the typed texts that validateInput lets through, and the initial one
Storable(field) ==
    {InitialInputs[field]}
        \cup {v \in EditValues[field] \cup NonFinite \cup {onChangeValue(t) : t \in TypedTexts} :
                 validateInput(field, v)}

\* every value the inputs state can take
StorableInputs ==
    [employees        : Storable("employees"),
     revenue          : Storable("revenue"),
     insurance        : Storable("insurance"),
     backupsIsolated  : BOOLEAN,
     mfaEnabled       : BOOLEAN,
     phishingTraining : BOOLEAN,
     vendorReviews    : BOOLEAN,
     irTabletop       : BOOLEAN]

\* the callback's value for every value of inputs, each computed once
ResultsTable == [i \in StorableInputs |-> ComputeResults(i)] @@ << >>

\* faulty variant of useMemo: an empty dependency list, the value of the first
\* render served ever after
useMemo_stale(deps) == ResultsTable[InitialInputs]

\* faulty variant of useMemo: the callback reads a state other than inputs,
\* and on the summary tab answers for the initial inputs
useMemo_ambient(deps) ==
    IF activeTab = "summary" THEN ResultsTable[InitialInputs] ELSE ResultsTable[deps]

\* useMemo(callback, [inputs]): the callback's value for the current inputs
useMemo(deps) == ResultsTable[deps]

Init ==
    /\ inputs = InitialInputs
    /\ activeTab = "instructions"
    /\ inputErrors = << >>
    /\ results = useMemo(inputs)
    /\ event = Event(FALSE, << >>)
    /\ responses = << >>
    /\ percentiles = << >>

\* faulty variant of handleInputChangeNumber: the edit is stored whether or
\* not validateInput accepts it
handleInputChangeNumber_applies(field, value) ==
    /\ inputErrors' = validateInputErrors(field, value, inputErrors)
    /\ inputs' = [inputs EXCEPT ![field] = value]
    /\ results' = ComputeResults(inputs')
    /\ UNCHANGED activeTab

\* handleInputChange(field, value) with value of type number
handleInputChangeNumber(field, value) ==
    /\ inputErrors' = validateInputErrors(field, value, inputErrors)
    /\ IF ~validateInput(field, value)
       THEN UNCHANGED <<inputs, results>>
       ELSE /\ inputs' = [inputs EXCEPT ![field] = value]
            /\ results' = useMemo(inputs')
    /\ UNCHANGED activeTab

\* handleInputChange(field, value) with value of type boolean
handleInputChangeBoolean(field, value) ==
    /\ inputs' = [inputs EXCEPT ![field] = value]
    /\ results' = useMemo(inputs')
    /\ UNCHANGED <<activeTab, inputErrors>>

\* onChange of the number input of a field, the typed text given
onChangeNumber(field, text) == handleInputChangeNumber(field, onChangeValue(text))

setActiveTab(tab) ==
    /\ activeTab' = tab
    /\ UNCHANGED <<inputs, inputErrors, results>>

EditNumber == \E field \in NumericFields : \E value \in EditValues[field] :
    handleInputChangeNumber(field, value) /\ UNCHANGED <<event, responses, percentiles>>

ToggleControl == \E field \in Controls : \E value \in BOOLEAN :
    handleInputChangeBoolean(field, value) /\ UNCHANGED <<event, responses, percentiles>>

SwitchTab == \E tab \in Tabs : setActiveTab(tab) /\ UNCHANGED <<event, responses, percentiles>>

TypeText == \E field \in NumericFields : \E text \in TypedTexts :
    onChangeNumber(field, text) /\ UNCHANGED <<event, responses, percentiles>>

Next == EditNumber \/ TypeText \/ ToggleControl \/ SwitchTab

\* the component driven by edits that carry finite numbers
Spec == Init /\ [][Next]_vars

EditNonFinite == \E field \in NumericFields : \E value \in NonFinite :
    handleInputChangeNumber(field, value) /\ UNCHANGED <<event, responses, percentiles>>

NextAny == EditNumber \/ TypeText \/ EditNonFinite \/ ToggleControl \/ SwitchTab

\* the component driven by edits that carry any value of type number
SpecAny == Init /\ [][NextAny]_vars

NextForm == EditNumber \/ TypeText \/ EditNonFinite \/ ToggleControl

\* the input form alone: every call of handleInputChange, with any value of
\* type number or a boolean, the tab left where it is (handleInputChange
\* neither reads nor writes activeTab)
SpecForm == Init /\ [][NextForm]_vars

\* every body of at most MaxBody tokens
Bodies == UNION {[1..n -> BodyTokens] : n \in 0..MaxBody}

\* the events: one without body, and one for every body
Events == {Event(FALSE, << >>)} \cup {Event(TRUE, body) : body \in Bodies}

InitSignup ==
    /\ inputs = InitialInputs
    /\ activeTab = "instructions"
    /\ inputErrors = << >>
    /\ results = useMemo(inputs)
    /\ event \in Events
    /\ responses = << >>
    /\ percentiles = << >>

\* the platform invokes the handler with the event and receives its response
Invoke ==
    /\ responses = << >>
    /\ responses' = <<handler(event)>>
    /\ UNCHANGED <<inputs, activeTab, inputErrors, results, event, percentiles>>

NextSignup == Invoke

\* the webhook, invoked once with any of the events
SpecSignup == InitSignup /\ [][NextSignup]_vars

\* the profiles whose employees and revenue are powers of ten within the
\* limits, at and above the floors of the two logarithms
Profiles64 ==
    { [InitialInputs EXCEPT !.employees = employees, !.revenue = revenue,
                            !.backupsIsolated = backups, !.mfaEnabled = mfa,
                            !.phishingTraining = training, !.vendorReviews = reviews,
                            !.irTabletop = tabletop]
      : employees \in {Whole(100), Whole(1000), Whole(10000), Whole(100000),
                       Whole(1000000)},
        revenue \in {Whole(10000000), Num(100, 0), Num(1000, 0), Num(10000, 0),
                     Num(100000, 0)},
        backups \in BOOLEAN, mfa \in BOOLEAN, training \in BOOLEAN,
        reviews \in BOOLEAN, tabletop \in BOOLEAN }

InitBinary64 ==
    /\ inputs \in Profiles64
    /\ activeTab = "instructions"
    /\ inputErrors = << >>
    /\ results = ComputeResults(inputs)
    /\ event = Event(FALSE, << >>)
    /\ responses = << >>
    /\ percentiles = << >>

\* the map over THREAT_SCENARIOS of the useMemo callback, in binary64
MapScenarios ==
    /\ percentiles = << >>
    /\ percentiles' = scenarioPercentiles64(inputs)
    /\ UNCHANGED <<inputs, activeTab, inputErrors, results, event, responses>>

NextBinary64 == MapScenarios

SpecBinary64 == InitBinary64 /\ [][NextBinary64]_vars

\* ------------------------------------------------------------------------
\* Properties
\* ------------------------------------------------------------------------

\* C1 (monotonicity): a step that enables one control that was disabled and
\* leaves every other input as it was yields a totalCost no greater than the
\* previous one and a securityScore no smaller than the previous one.
Monotonicity ==
    [][\A c \in Controls :
          (~inputs[c] /\ inputs' = [inputs EXCEPT ![c] = TRUE]) =>
              /\ results'.totalCost.v <= results.totalCost.v
              /\ results'.securityScore.v >= results.securityScore.v]_vars

\* a state in which backupsIsolated is on while another control is off, the
\* totalCost being strictly below and the securityScore strictly above those
\* of the same inputs with backupsIsolated off
MonotonicityWitness ==
    /\ inputs.backupsIsolated
    /\ ~inputs.mfaEnabled
    /\ LET before == useMemo([inputs EXCEPT !.backupsIsolated = FALSE])
       IN  /\ results.totalCost.v < before.totalCost.v
           /\ results.securityScore.v > before.securityScore.v

StoredInputsInRange ==
    /\ ~NumLt(inputs.employees, Whole(1))
    /\ ~NumLt(Whole(1000000), inputs.employees)
    /\ ~NumLt(inputs.revenue, Whole(0))
    /\ ~NumLt(Num(100000, 0), inputs.revenue)
    /\ ~NumLt(inputs.insurance, Whole(0))
    /\ ~NumLt(Whole(50000000), inputs.insurance)
    /\ \A f \in NumericFields : inputs[f].k = "fin"

\* a state in which a rejected edit of employees has left its error while the
\* stored employees is the upper limit, stored by an accepted edit before
StoredInputsInRangeWitness ==
    /\ "employees" \in DOMAIN inputErrors
    /\ inputs.employees = Whole(1000000)

\* C4 (cap of the global discount): for every control combination
\* riskReduction is min(securityScore * 0.65, 0.75), so it never exceeds 0.75,
\* and the reported riskReduction is round(riskReduction * 100), a whole
\* number between 0 and 75.
RiskReductionCap ==
    LET score    == securityScore(inputs).v
        scaled   == (score * 65) \div 100
        cap      == (75 * FS) \div 100
        fraction == riskReduction(inputs).v
    IN  /\ fraction = IF scaled < cap THEN scaled ELSE cap
        /\ fraction <= cap
        /\ results.riskReduction.v = ((fraction * 100 + FS \div 2) \div FS) * FS
        /\ results.riskReduction.v % FS = 0
        /\ results.riskReduction.v >= 0
        /\ results.riskReduction.v <= 75 * FS

\* a state with mfaEnabled and vendorReviews off, where the score is 0.55 and
\* the reported riskReduction is round(35.75) = 36
RiskReductionCapWitness ==
    /\ ~inputs.mfaEnabled
    /\ ~inputs.vendorReviews
    /\ enabledControls(inputs) = 3
    /\ results.riskReduction = Dec(36, 1)

\* C5 (category reduction): in every entry of the cost breakdown
\* reductionFactor is min(direct + synergyBonus, 0.70), direct being 0.35 for
\* Emergency IT/Forensics with backupsIsolated, 0.25 for Revenue Loss with
\* mfaEnabled, 0.30 for Client Churn with phishingTraining, 0.45 for
\* Regulatory Fines with vendorReviews, 0.40 for Staff Overtime with
\* irTabletop and 0 otherwise; so 0 <= reductionFactor <= 0.70.
CategoryReduction ==
    \A i \in DOMAIN results.costBreakdown :
        LET entry  == results.costBreakdown[i]
            direct ==
                CASE entry.name = "Emergency IT/Forensics" /\ inputs.backupsIsolated -> 35
                  [] entry.name = "Revenue Loss" /\ inputs.mfaEnabled               -> 25
                  [] entry.name = "Client Churn" /\ inputs.phishingTraining         -> 30
                  [] entry.name = "Regulatory Fines" /\ inputs.vendorReviews        -> 45
                  [] entry.name = "Staff Overtime" /\ inputs.irTabletop             -> 40
                  [] OTHER                                                          -> 0
            sum    == direct * (FS \div 100) + synergyBonus(inputs).v
            cap    == 70 * (FS \div 100)
        IN  /\ entry.name = COST_CATEGORIES[i].name
            /\ entry.reductionFactor.v = IF sum < cap THEN sum ELSE cap
            /\ entry.reductionFactor.v >= 0
            /\ entry.reductionFactor.v <= cap

\* a state with exactly three controls on, vendorReviews among them:
\* Regulatory Fines carries 0.45 + 0.10 and Audit Costs the synergy alone
CategoryReductionWitness ==
    /\ enabledControls(inputs) = 3
    /\ inputs.vendorReviews
    /\ results.costBreakdown[10].name = "Regulatory Fines"
    /\ results.costBreakdown[10].reductionFactor = Dec(55, 100)
    /\ results.costBreakdown[11].reductionFactor = Dec(10, 100)

\* C6 (score bound): for each of the 32 control combinations securityScore
\* is 0.15 plus the weights of the controls that are on (0.15, 0.20, 0.15,
\* 0.25, 0.10), so 0.15 <= securityScore <= 1.0; it is 1.0, reported as 100,
\* with all five on, and 0.15, reported as 15, with none.
ScoreBound ==
    LET w(on, hundredths) == IF on THEN hundredths * (FS \div 100) ELSE 0
        sum == 15 * (FS \div 100)
                 + w(inputs.backupsIsolated, 15) + w(inputs.mfaEnabled, 20)
                 + w(inputs.phishingTraining, 15) + w(inputs.vendorReviews, 25)
                 + w(inputs.irTabletop, 10)
    IN  /\ securityScore(inputs).v = sum
        /\ securityScore(inputs).v >= 15 * (FS \div 100)
        /\ securityScore(inputs).v <= FS
        /\ enabledControls(inputs) = 5 =>
               securityScore(inputs).v = FS /\ results.securityScore = Dec(100, 1)
        /\ enabledControls(inputs) = 0 =>
               securityScore(inputs).v = 15 * (FS \div 100)
                   /\ results.securityScore = Dec(15, 1)

\* a state with no control on, reporting the score 15
ScoreBoundWitness ==
    /\ enabledControls(inputs) = 0
    /\ results.securityScore = Dec(15, 1)

\* C7 (percentile ordering): for each of the three scenarios, every stored
\* profile and every control set, the rounded percentiles satisfy
\* 5th <= 25th <= Median <= 75th <= 95th.
PercentileOrdering ==
    /\ DOMAIN results.scenarios = 1..3
    /\ \A i \in DOMAIN results.scenarios :
           LET p == results.scenarios[i].percentiles
           IN  /\ p["5th"].v <= p["25th"].v
               /\ p["25th"].v <= p["Median"].v
               /\ p["Median"].v <= p["75th"].v
               /\ p["75th"].v <= p["95th"].v

\* a state of the smallest profile with no control on, the five percentiles of
\* every scenario strictly increasing
PercentileOrderingWitness ==
    /\ inputs.employees = Whole(1)
    /\ inputs.revenue = Whole(0)
    /\ enabledControls(inputs) = 0
    /\ \A i \in DOMAIN results.scenarios :
           LET p == results.scenarios[i].percentiles
           IN  /\ p["5th"].v < p["25th"].v
               /\ p["25th"].v < p["Median"].v
               /\ p["Median"].v < p["75th"].v
               /\ p["75th"].v < p["95th"].v

\* C8 (non-negativity): for every profile within the limits and every control
\* set, each percentile of each scenario, each adjustedCost and totalCost is a
\* whole number that is not negative.
NonNegativeWhole ==
    LET wholeNonNegative(x) == x.k = "fin" /\ x.v >= 0 /\ x.v % CS = 0
    IN  /\ \A i \in DOMAIN results.scenarios : \A key \in PercentileKeys :
               wholeNonNegative(results.scenarios[i].percentiles[key])
        /\ \A i \in DOMAIN results.costBreakdown :
               wholeNonNegative(results.costBreakdown[i].adjustedCost)
        /\ wholeNonNegative(results.totalCost)

\* a state of the largest profile, where the products left fractions for
\* Math.round to remove and the total is positive
NonNegativeWholeWitness ==
    /\ inputs.employees = Whole(1000000)
    /\ inputs.revenue = Num(100000, 0)
    /\ ~inputs.backupsIsolated
    /\ results.totalCost.v > 0
    /\ results.scenarios[2].percentiles["95th"].v > 0

ScaleFactorFloor ==
    /\ sizeFactor(inputs).k = "fin"
    /\ sizeFactor(inputs).v >= FS
    /\ revenueFactor(inputs).k = "fin"
    /\ revenueFactor(inputs).v >= FS
    /\ results # Null
    /\ inputs.employees = Whole(1) => sizeFactor(inputs) = Dec(1, 1)
    /\ inputs.employees = Whole(1000000) => sizeFactor(inputs) = Dec(18, 10)
    /\ NumLt(inputs.revenue, Whole(1000000)) =>
           revenueFactor(inputs) = revenueFactor([inputs EXCEPT !.revenue = Whole(1000000)])

\* a state at the lower limits: employees 1 and revenue 0, both factors 1
ScaleFactorFloorWitness ==
    /\ inputs.employees = Whole(1)
    /\ inputs.revenue = Whole(0)
    /\ sizeFactor(inputs) = Dec(1, 1)
    /\ revenueFactor(inputs) = Dec(1, 1)

ErrorCleared ==
    [][\A f \in DOMAIN inputErrors : \A v \in EditValues[f] :
          ( /\ inputs'[f] = v
            /\ ~NumLt(v, INPUT_LIMITS[f].min)
            /\ ~NumLt(INPUT_LIMITS[f].max, v)
            /\ handleInputChangeNumber(f, v) ) =>
              f \notin DOMAIN inputErrors']_vars

\* a state in which the error of employees is recorded while employees and
\* revenue hold values stored by accepted edits and revenue has no error: the
\* state an accepted edit of employees leaves without error
ErrorClearedWitness ==
    /\ DOMAIN inputErrors = {"employees"}
    /\ inputs.revenue = Whole(0)
    /\ inputs.employees = Whole(1)

\* C13 (errors are scoped to their field and not fatal): a rejected edit of
\* one numeric field changes no stored value and no other field's error, and
\* results stays the non-null value computed from the stored inputs; while a
\* field's error is recorded, an edit that changes another field stores a
\* value within that field's range and a toggle changes its control, both
\* leaving the recorded error and a non-null results.
ErrorFieldScoped ==
    [][/\ \A f \in NumericFields : \A v \in EditValues[f] :
            ( /\ inputErrors' # inputErrors
              /\ NumLt(v, INPUT_LIMITS[f].min) \/ NumLt(INPUT_LIMITS[f].max, v)
              /\ handleInputChangeNumber(f, v) ) =>
                /\ inputs' = inputs
                /\ \A g \in NumericFields \ {f} :
                       /\ g \in DOMAIN inputErrors' <=> g \in DOMAIN inputErrors
                       /\ g \in DOMAIN inputErrors => inputErrors'[g] = inputErrors[g]
                /\ inputErrors'[f] = BoundMessage(INPUT_LIMITS[f])
                /\ results' = results
                /\ results' # Null
                /\ results' = useMemo(inputs)
       /\ \A f \in DOMAIN inputErrors : \A g \in NumericFields \ {f} :
            \A v \in EditValues[g] \ {inputs[g]} :
              ( /\ inputs'[g] = v
                /\ handleInputChangeNumber(g, v) ) =>
                  /\ ~NumLt(v, INPUT_LIMITS[g].min)
                  /\ ~NumLt(INPUT_LIMITS[g].max, v)
                  /\ f \in DOMAIN inputErrors'
                  /\ inputErrors'[f] = inputErrors[f]
                  /\ results' # Null
       /\ \A f \in DOMAIN inputErrors : \A c \in Controls :
              ( /\ inputs'[c] # inputs[c]
                /\ handleInputChangeBoolean(c, ~inputs[c]) ) =>
                  /\ inputErrors' = inputErrors
                  /\ f \in DOMAIN inputErrors'
                  /\ results' # Null]_vars

\* a state with the errors of two fields recorded, in which a third field
\* holds a value stored by an edit and a control is off
ErrorFieldScopedWitness ==
    /\ DOMAIN inputErrors = {"employees", "revenue"}
    /\ inputs.insurance = Whole(50000000)
    /\ ~inputs.irTabletop
    /\ results # Null

\* C14 (malformed text is coerced to zero): a text typed into one of the
\* three number inputs that is no number reaches handleInputChange as 0, so
\* the employees, revenue and insurance the computation reads are numbers,
\* never NaN.
MalformedTextIsZero ==
    /\ \A t \in TypedTexts :
           ~IsValidFloatingPointNumber(t) => onChangeValue(t) = Whole(0)
    /\ \A f \in NumericFields : inputs[f].k = "fin"

\* a state after texts were typed into the three number inputs: the 0 they
\* stand for is stored in revenue and insurance and rejected for employees
MalformedTextIsZeroWitness ==
    /\ inputs.revenue = Whole(0)
    /\ inputs.insurance = Whole(0)
    /\ inputs.employees = Whole(250)
    /\ DOMAIN inputErrors = {"employees"}
    /\ inputErrors.employees = BoundMessage(INPUT_LIMITS.employees)

\* C15 (the webhook always answers 200): every response of the handler has
\* status 200 and no error escapes; where the body of the event is absent,
\* empty or parses as JSON, the response body is the JSON text granting the
\* one role subscriber under app_metadata.roles; where parsing fails, it is
\* the empty JSON object.
SignupAlwaysAnswers ==
    \A i \in DOMAIN responses :
        LET parses == \/ ~event.hasBody
                      \/ event.body = << >>
                      \/ JSONparse(event.body).ok
        IN  /\ responses[i] # Rejected
            /\ responses[i].statusCode = 200
            /\ parses =>
                   responses[i].body =
                       <<"{", "\"app_metadata\"", ":", "{", "\"roles\"", ":",
                         "[", "\"subscriber\"", "]", "}", "}">>
            /\ ~parses => responses[i].body = <<"{", "}">>

\* a state after the handler answered an event whose body breaks off inside
\* an object: status 200 and the empty object
SignupAlwaysAnswersWitness ==
    /\ event = Event(TRUE, <<"{", "\"user\"", ":">>)
    /\ responses = <<[statusCode |-> 200, body |-> <<"{", "}">>]>>

\* C16 (totals and shape): in every results that is not null, totalCost is
\* the sum of the rounded adjustedCost of the entries of costBreakdown,
\* costBreakdown has one entry for each of the 11 cost categories, in their
\* order, and scenarios one entry for each of the 3 threat scenarios, each
\* with the five percentile keys.
TotalsAndShape ==
    results # Null =>
        LET cost(i) == results.costBreakdown[i].adjustedCost.v
        IN  /\ DOMAIN results.costBreakdown = 1..11
            /\ Len(COST_CATEGORIES) = 11
            /\ \A i \in 1..11 :
                   /\ results.costBreakdown[i].name = COST_CATEGORIES[i].name
                   /\ results.costBreakdown[i].baseCost = COST_CATEGORIES[i].baseCost
                   /\ cost(i) % CS = 0
            /\ results.totalCost.v =
                   cost(1) + cost(2) + cost(3) + cost(4) + cost(5) + cost(6)
                       + cost(7) + cost(8) + cost(9) + cost(10) + cost(11)
            /\ DOMAIN results.scenarios = 1..3
            /\ Len(THREAT_SCENARIOS) = 3
            /\ \A i \in 1..3 :
                   /\ results.scenarios[i].name = THREAT_SCENARIOS[i].name
                   /\ results.scenarios[i].baseCost = THREAT_SCENARIOS[i].baseCost
                   /\ DOMAIN results.scenarios[i].percentiles =
                          {"5th", "25th", "Median", "75th", "95th"}

\* a state of 1,000,000 employees with no control on: every category costs
\* 1.8 times its baseCost and the total is 1.8 * 1,200,000
TotalsAndShapeWitness ==
    /\ inputs.employees = Whole(1000000)
    /\ enabledControls(inputs) = 0
    /\ results # Null
    /\ results.costBreakdown[11].adjustedCost = Money(54000)
    /\ results.totalCost = Money(2160000)

\* C17 as stated (worked example, scenarios): with 250 employees, a revenue
\* of 50,000,000, an insurance of 1,000,000 and all five controls on,
\* securityScore is 100 and riskReduction 65, sizeFactor is 1.0796 and
\* revenueFactor 1.1048 to four decimals, and the Phishing percentiles are
\* Median 125,246, 25th 68,885, 75th 206,656, 5th 18,787 and 95th 495,974,
\* each within one unit.
WorkedScenarioAsStated ==
    ( /\ inputs.employees = Whole(250)
      /\ inputs.revenue = Whole(50000000)
      /\ inputs.insurance = Whole(1000000)
      /\ enabledControls(inputs) = 5 ) =>
        LET p == results.scenarios[1].percentiles
            near(x, units) == x.v >= (units - 1) * CS /\ x.v <= (units + 1) * CS
        IN  /\ results.securityScore = Dec(100, 1)
            /\ results.riskReduction = Dec(65, 1)
            /\ results.scenarios[1].name = "Phishing"
            /\ near(p["Median"], 125246)
            /\ near(p["25th"], 68885)
            /\ near(p["75th"], 206656)
            /\ near(p["5th"], 18787)
            /\ near(p["95th"], 495974)

\* C17 as amended (worked example, scenarios): for the same profile and
\* controls securityScore is 100 and riskReduction 65, sizeFactor is 1.0796
\* and revenueFactor 1.1048 to four decimals, and the Phishing percentiles
\* are Median 125,242, 25th 68,883, 75th 206,649, 5th 18,786 and 95th
\* 495,957.
WorkedScenario ==
    ( /\ inputs.employees = Whole(250)
      /\ inputs.revenue = Whole(50000000)
      /\ inputs.insurance = Whole(1000000)
      /\ enabledControls(inputs) = 5 ) =>
        LET p == results.scenarios[1].percentiles
            fourDecimals(x) == (x.v + 500) \div 1000
        IN  /\ results.securityScore = Dec(100, 1)
            /\ results.riskReduction = Dec(65, 1)
            /\ fourDecimals(sizeFactor(inputs)) = 10796
            /\ fourDecimals(revenueFactor(inputs)) = 11048
            /\ results.scenarios[1].name = "Phishing"
            /\ results.scenarios[1].baseCost = 300000
            /\ p["Median"] = Money(125242)
            /\ p["25th"] = Money(68883)
            /\ p["75th"] = Money(206649)
            /\ p["5th"] = Money(18786)
            /\ p["95th"] = Money(495957)

\* a state of the worked profile with all controls on, reached again after
\* the edits and toggles that left the error of employees
WorkedScenarioWitness ==
    /\ inputs = InitialInputs
    /\ "employees" \in DOMAIN inputErrors
    /\ activeTab = "results"
    /\ results.scenarios[1].percentiles["Median"] = Money(125242)

\* C18 (worked example, categories): with 250 employees, a revenue of
\* 50,000,000 and all five controls on, the entry Emergency IT/Forensics
\* (baseCost 85,000) has reductionFactor 0.50, the direct 0.35 plus the
\* synergy 0.15, and an adjustedCost within one unit of 45,883.
WorkedCategory ==
    ( /\ inputs.employees = Whole(250)
      /\ inputs.revenue = Whole(50000000)
      /\ enabledControls(inputs) = 5 ) =>
        LET entry == results.costBreakdown[1]
        IN  /\ entry.name = "Emergency IT/Forensics"
            /\ entry.baseCost = 85000
            /\ directReduction(COST_CATEGORIES[1], inputs) = Dec(35, 100)
            /\ synergyBonus(inputs) = Dec(15, 100)
            /\ entry.reductionFactor = Dec(50, 100)
            /\ entry.adjustedCost.v >= (45883 - 1) * CS
            /\ entry.adjustedCost.v <= (45883 + 1) * CS

\* the worked profile with another insurance than the initial one, all
\* controls on, showing the entry of the example
WorkedCategoryWitness ==
    /\ inputs.employees = Whole(250)
    /\ inputs.revenue = Whole(50000000)
    /\ inputs.insurance # Whole(1000000)
    /\ enabledControls(inputs) = 5
    /\ results.costBreakdown[1].reductionFactor = Dec(50, 100)
    /\ results.costBreakdown[1].adjustedCost = Money(45882)

\* C19 as stated (percentile formulas): for each scenario, with adjustedBase =
\* baseCost * sizeFactor * revenueFactor * (1 - riskReduction) taken from the
\* scenario's baseCost and the three factors of the inputs, the percentiles
\* are exactly 5th = round(max(adjustedBase * 0.15, adjustedBase -
\* adjustedBase * 0.6 * 1.5)), 25th = round(adjustedBase * 0.55), Median =
\* round(adjustedBase), 75th = round(adjustedBase * 1.65) and 95th =
\* round(adjustedBase * 3.96), in the arithmetic of the program.
PercentileFormulasAsStated ==
    percentiles # << >> =>
        \A i \in DOMAIN THREAT_SCENARIOS :
            LET adjustedBase ==
                    Times64(Times64(Times64(Whole64(THREAT_SCENARIOS[i].baseCost),
                                            sizeFactor64(inputs)),
                                    revenueFactor64(inputs)),
                            Minus64(Whole64(1), riskReduction64(inputs)))
                p == percentiles[i]
            IN  /\ p["5th"] =
                       MathRound64(
                           Max64(Times64(adjustedBase, Literal64(15, 100)),
                                 Minus64(adjustedBase,
                                         Times64(Times64(adjustedBase, Literal64(6, 10)),
                                                 Literal64(15, 10)))))
                /\ p["25th"] = MathRound64(Times64(adjustedBase, Literal64(55, 100)))
                /\ p["Median"] = MathRound64(adjustedBase)
                /\ p["75th"] = MathRound64(Times64(adjustedBase, Literal64(165, 100)))
                /\ p["95th"] = MathRound64(Times64(adjustedBase, Literal64(396, 100)))

\* C19 as amended (percentile formulas): the same, with 95th =
\* round(adjustedBase * 1.8 * 2.2), the two factors multiplied in turn; the
\* five values are determined by baseCost and the three factors.
PercentileFormulas ==
    percentiles # << >> =>
        \A i \in DOMAIN THREAT_SCENARIOS :
            LET adjustedBase ==
                    Times64(Times64(Times64(Whole64(THREAT_SCENARIOS[i].baseCost),
                                            sizeFactor64(inputs)),
                                    revenueFactor64(inputs)),
                            Minus64(Whole64(1), riskReduction64(inputs)))
                p == percentiles[i]
            IN  /\ p["5th"] =
                       MathRound64(
                           Max64(Times64(adjustedBase, Literal64(15, 100)),
                                 Minus64(adjustedBase,
                                         Times64(Times64(adjustedBase, Literal64(6, 10)),
                                                 Literal64(15, 10)))))
                /\ p["25th"] = MathRound64(Times64(adjustedBase, Literal64(55, 100)))
                /\ p["Median"] = MathRound64(adjustedBase)
                /\ p["75th"] = MathRound64(Times64(adjustedBase, Literal64(165, 100)))
                /\ p["95th"] = 
                       MathRound64(Times64(Times64(adjustedBase, Literal64(18, 10)),
                                           Literal64(22, 10)))

\* the percentiles of Phishing computed for 100 employees, a revenue of
\* 10,000,000,000 and the controls mfaEnabled, phishingTraining and
\* vendorReviews: adjustedBase * 1.8 * 2.2 is 882,832.5 and rounds up
PercentileFormulasWitness ==
    /\ percentiles # << >>
    /\ inputs.employees = Whole(100)
    /\ inputs.revenue = Num(10000, 0)
    /\ {c \in Controls : inputs[c]} = {"mfaEnabled", "phishingTraining", "vendorReviews"}
    /\ percentiles[1]["Median"] = 222937
    /\ percentiles[1]["95th"] = 882833

\* C20 (synergy bonus): the bonus is determined by the number of controls
\* that are on, 0.15 for four or five, 0.10 for exactly three and 0 for two
\* or fewer, and the reductionFactor of each of the 11 categories is its
\* direct reduction plus that bonus: the bonus alone for the six categories
\* that no control maps to.
SynergyBonus ==
    LET count  == Cardinality({c \in Controls : inputs[c]})
        bonus  == IF count >= 4 THEN Dec(15, 100)
                  ELSE IF count = 3 THEN Dec(10, 100)
                  ELSE Fin(0)
        mapped == {"Emergency IT/Forensics", "Revenue Loss", "Client Churn",
                   "Regulatory Fines", "Staff Overtime"}
    IN  /\ synergyBonus(inputs) = bonus
        /\ DOMAIN results.costBreakdown = 1..11
        /\ Cardinality({i \in 1..11 : results.costBreakdown[i].name \notin mapped}) = 6
        /\ \A i \in 1..11 :
               LET entry == results.costBreakdown[i]
               IN  /\ entry.reductionFactor =
                          Plus(directReduction(COST_CATEGORIES[i], inputs), bonus)
                   /\ entry.name \notin mapped => entry.reductionFactor = bonus

\* exactly three controls on, backupsIsolated among them: Legal/Compliance,
\* which no control maps to, is reduced by the bonus 0.10 alone and Emergency
\* IT/Forensics by 0.35 + 0.10
SynergyBonusWitness ==
    /\ enabledControls(inputs) = 3
    /\ inputs.backupsIsolated
    /\ results.costBreakdown[2].name = "Legal/Compliance"
    /\ results.costBreakdown[2].reductionFactor = Dec(10, 100)
    /\ results.costBreakdown[1].reductionFactor = Dec(45, 100)

\* C21 (no category is eliminated): for every cost category adjustedCost is
\* round(baseCost * (1 - reductionFactor) * sizeFactor), reductionFactor is
\* at most 0.70 and sizeFactor at least 1, so adjustedCost is at least 30% of
\* the category's baseCost and strictly positive.
CategoryNeverEliminated ==
    LET size == sizeFactor(inputs)
    IN  /\ size.v >= FS
        /\ \A i \in DOMAIN results.costBreakdown :
               LET entry == results.costBreakdown[i]
               IN  /\ entry.baseCost = COST_CATEGORIES[i].baseCost
                   /\ entry.reductionFactor.v <= Dec(70, 100).v
                   /\ entry.adjustedCost =
                          MathRound(Times(Times(Money(entry.baseCost),
                                                Minus(Dec(1, 1), entry.reductionFactor)),
                                          size),
                                    CS)
                   /\ entry.adjustedCost.v * 10 >= Money(entry.baseCost).v * 3
                   /\ entry.adjustedCost.v > 0

\* the smallest share a category keeps: Regulatory Fines with vendorReviews
\* and all other controls on and no more than 100 employees, reduced by 0.60
\* to 30,000 of 75,000
CategoryNeverEliminatedWitness ==
    /\ enabledControls(inputs) = 5
    /\ sizeFactor(inputs) = Dec(1, 1)
    /\ results.costBreakdown[10].name = "Regulatory Fines"
    /\ results.costBreakdown[10].reductionFactor = Dec(60, 100)
    /\ results.costBreakdown[10].adjustedCost = Money(30000)

\* C22 (the memo is never stale): after any sequence of accepted edits,
\* rejected edits, control toggles and tab switches, results is the value of
\* the computation for the inputs stored now; a step that records a new
\* error (a rejected edit) and a step that changes the tab leave inputs and
\* results as they were.
MemoNeverStale ==
    /\ [](results = ResultsTable[inputs])
    /\ [][ /\ (\E f \in NumericFields :
                   f \in DOMAIN inputErrors' /\ f \notin DOMAIN inputErrors) =>
                       inputs' = inputs /\ results' = results
           /\ activeTab' # activeTab =>
                       inputs' = inputs /\ results' = results ]_vars

\* after a rejected edit of revenue, an accepted edit of employees, a toggle
\* and a tab switch, results is that of the stored inputs and no longer that
\* of the initial ones
MemoNeverStaleWitness ==
    /\ "revenue" \in DOMAIN inputErrors
    /\ inputs.revenue = InitialInputs.revenue
    /\ inputs.employees = Whole(1000000)
    /\ ~inputs.mfaEnabled
    /\ activeTab = "breakdown"
    /\ results = ComputeResults(inputs)
    /\ results # ComputeResults(InitialInputs)

\* C23 (what the cost side depends on): with employees and the five controls
\* held as they are stored, every other storable revenue and insurance gives
\* the same cost breakdown (every reductionFactor and adjustedCost) and the
\* same totalCost; every other storable insurance gives the same results
\* altogether, the percentiles of all scenarios included.
CostSideDependency ==
    /\ \A revenue \in Storable("revenue") : \A insurance \in Storable("insurance") :
           LET other == ResultsTable[[inputs EXCEPT !.revenue = revenue,
                                                   !.insurance = insurance]]
           IN  /\ other.costBreakdown = results.costBreakdown
               /\ other.totalCost = results.totalCost
    /\ \A insurance \in Storable("insurance") :
           ResultsTable[[inputs EXCEPT !.insurance = insurance]] = results

\* a state whose revenue and insurance are both other than the initial ones,
\* with the cost side of the initial state and other percentiles
CostSideDependencyWitness ==
    /\ inputs.revenue = Num(100000, 0)
    /\ inputs.insurance = Whole(0)
    /\ inputs.employees = InitialInputs.employees
    /\ enabledControls(inputs) = 5
    /\ results.costBreakdown = ComputeResults(InitialInputs).costBreakdown
    /\ results.totalCost = ComputeResults(InitialInputs).totalCost
    /\ results.scenarios # ComputeResults(InitialInputs).scenarios

\* C24 (the floor of the 5th percentile): for an adjustedBase that is not
\* negative the 5th percentile is round(adjustedBase * 0.15), the variance
\* branch adjustedBase - adjustedBase * 0.6 * 1.5 never exceeding the floor;
\* adjustedBase is at least 300,000 * 0.35 for the stored inputs, and the 5th
\* percentile of every scenario is strictly positive.
FifthPercentileFloor ==
    /\ \A units \in {0, 1, 7, 105000, 1234567} :
           percentilesAround(Money(units))["5th"] =
               MathRound(TimesDec(Money(units), 15, 100), CS)
    /\ LET factors == organizationFactors(inputs)
       IN  \A i \in DOMAIN THREAT_SCENARIOS :
               LET adjustedBase ==
                       Times(Times(Times(Money(THREAT_SCENARIOS[i].baseCost),
                                         factors.sizeFactor),
                                   factors.revenueFactor),
                             Minus(Dec(1, 1), factors.riskReduction))
                   floor    == TimesDec(adjustedBase, 15, 100)
                   variance == Minus(adjustedBase,
                                     TimesDecDec(adjustedBase, 6, 10, 15, 10))
                   fifth    == results.scenarios[i].percentiles["5th"]
               IN  /\ adjustedBase.v >= TimesDec(Money(300000), 35, 100).v
                   /\ variance.v <= floor.v
                   /\ fifth = MathRound(floor, CS)
                   /\ fifth.v > 0

\* the smallest adjustedBase: Phishing with all controls on and both factors
\* 1, 105,000, its 5th percentile the floor 15,750
FifthPercentileFloorWitness ==
    /\ sizeFactor(inputs) = Dec(1, 1)
    /\ revenueFactor(inputs) = Dec(1, 1)
    /\ enabledControls(inputs) = 5
    /\ results.scenarios[1].percentiles["Median"] = Money(105000)
    /\ results.scenarios[1].percentiles["5th"] = Money(15750)

\* C25 (the cap of 0.70 never binds): for every control set and each of the
\* 11 categories, direct + synergyBonus is at most 0.60, reached by
\* Regulatory Fines with vendorReviews and at least four controls on and by
\* no other, so reductionFactor is the uncapped sum and stays below 0.70.
CategoryCapNeverBinds ==
    \A i \in DOMAIN COST_CATEGORIES :
        LET uncapped == Plus(directReduction(COST_CATEGORIES[i], inputs),
                             synergyBonus(inputs))
            entry    == results.costBreakdown[i]
        IN  /\ uncapped.v <= Dec(60, 100).v
            /\ entry.reductionFactor = uncapped
            /\ entry.reductionFactor.v < Dec(70, 100).v
            /\ uncapped = Dec(60, 100) <=>
                   /\ COST_CATEGORIES[i].name = "Regulatory Fines"
                   /\ inputs.vendorReviews
                   /\ enabledControls(inputs) >= 4

\* Regulatory Fines at the largest reduction, 0.60, with exactly four
\* controls on
CategoryCapNeverBindsWitness ==
    /\ enabledControls(inputs) = 4
    /\ inputs.vendorReviews
    /\ results.costBreakdown[10].name = "Regulatory Fines"
    /\ results.costBreakdown[10].reductionFactor = Dec(60, 100)

\* C26 (the ceiling of 0.75 never binds): for every control set
\* riskReduction is securityScore * 0.65, between 0.0975 with no control on
\* and 0.65 with all five, so the reported riskReduction is a percentage
\* between 10 and 65 and never 75.
RiskCeilingNeverBinds ==
    LET uncapped == TimesDec(securityScore(inputs), 65, 100)
        lowest   == Fin(975 * (FS \div 10000))
    IN  /\ riskReduction(inputs) = uncapped
        /\ uncapped.v >= lowest.v
        /\ uncapped.v <= Dec(65, 100).v
        /\ enabledControls(inputs) = 0 <=> uncapped = lowest
        /\ enabledControls(inputs) = 5 <=> uncapped = Dec(65, 100)
        /\ results.riskReduction = MathRound(TimesDec(uncapped, 100, 1), FS)
        /\ results.riskReduction.v >= Dec(10, 1).v
        /\ results.riskReduction.v <= Dec(65, 1).v
        /\ results.riskReduction # Dec(75, 1)

\* no control on: riskReduction is 0.0975 and the percentage reported is 10
RiskCeilingNeverBindsWitness ==
    /\ enabledControls(inputs) = 0
    /\ riskReduction(inputs) = Fin(975 * (FS \div 10000))
    /\ results.riskReduction = Dec(10, 1)
    /\ results.securityScore = Dec(15, 1)

\* C27 (what is not validated): validateInput(field, NaN) returns true for
\* each numeric field, so handleInputChange(field, NaN) leaves no error under
\* the field's key and stores NaN in inputs, for which results is computed;
\* a toggle of a control stores the boolean and leaves the error map as it
\* was.
Unvalidated ==
    /\ \A f \in NumericFields : validateInput(f, NumNaN)
    /\ [][ /\ \A f \in NumericFields :
                  handleInputChangeNumber(f, NumNaN) =>
                      /\ f \notin DOMAIN inputErrors'
                      /\ inputs' = [inputs EXCEPT ![f] = NumNaN]
                      /\ results' = ResultsTable[inputs']
           /\ \A c \in Controls :
                  inputs'[c] # inputs[c] =>
                      /\ inputs' = [inputs EXCEPT ![c] = ~inputs[c]]
                      /\ inputErrors' = inputErrors ]_vars

\* NaN stored as revenue with no error under revenue, while the error of a
\* rejected employees edit stands and a control has been toggled
UnvalidatedWitness ==
    /\ inputs.revenue = NumNaN
    /\ "revenue" \notin DOMAIN inputErrors
    /\ "employees" \in DOMAIN inputErrors
    /\ ~inputs.irTabletop
    /\ results = ComputeResults(inputs)

=============================================================================
